---- MODULE Spec2Model ----
(***************************************************************************)
(* Model of the concurrent crawl engine of sling_crawler.py: SlingCrawler's *)
(* shared state (visited_urls, structure, results, stats, semaphore), the   *)
(* coroutines crawl_path / fetch_json / fetch_asset cut at their await      *)
(* points, and the Transport (httpx) as the environment.                    *)
(*                                                                          *)
(* Strings are sequences of one-character strings, so that endswith,        *)
(* lstrip, rstrip and concatenation are computed as Python computes them.   *)
(***************************************************************************)
EXTENDS Integers, Sequences, FiniteSets, Bags, TLC

VARIABLES
    max_concurrent,  \* self.max_concurrent
    output_dir,      \* TRUE iff self.output_dir is set
    visited_urls,    \* self.visited_urls
    structure,       \* self.structure, keyed by the chain of child names
    results,         \* self.results
    stats,           \* self.stats (the four counters)
    semaphore,       \* self.semaphore._value: free permits
    tasks,           \* the coroutines of the run, in order of creation
    requests,        \* bag of the URLs handed to client.get so far
    crawlPc,         \* position of main() and crawl(): init, running, ended,
                     \* aborted, interrupted, exited
    report           \* TRUE once crawl() printed the summary and saved the outputs

vars == <<max_concurrent, output_dir, visited_urls, structure, results, stats,
          semaphore, tasks, requests, crawlPc, report>>

----------------------------------------------------------------------------
(* Bounds of the model *)

MaxTasks == 3          \* coroutines per run (root included)
MaxConcurrent == 2     \* largest configured concurrency ceiling
MaxSize == 1           \* largest body length of an asset or error response
MaxDepth == 3          \* deepest chain of child names below the root

----------------------------------------------------------------------------
(* Strings *)

RECURSIVE LStrip(_, _)
LStrip(s, c) == IF s # <<>> /\ Head(s) = c THEN LStrip(Tail(s), c) ELSE s

RECURSIVE RStrip(_, _)
RStrip(s, c) ==
    IF s # <<>> /\ s[Len(s)] = c THEN RStrip(SubSeq(s, 1, Len(s) - 1), c) ELSE s

EndsWith(s, suf) ==
    Len(s) >= Len(suf) /\ SubSeq(s, Len(s) - Len(suf) + 1, Len(s)) = suf

StartsWith(s, pre) == Len(s) >= Len(pre) /\ SubSeq(s, 1, Len(pre)) = pre

DotJson == <<".", "j", "s", "o", "n">>
Depth1Suffix == <<"/", ".", "1">> \o DotJson
JcrPrefix == <<"j", "c", "r", ":">>

\* self.base_url = base_url.rstrip('/')
base_url == RStrip(<<"h", "/">>, "/")

\* the child names a folder description may carry
NameA == <<"a">>
NameSlashA == <<"/", "a">>
NameEmpty == <<>>
NameJcr == JcrPrefix \o <<"c">>
Names == {NameA, NameSlashA, NameEmpty, NameJcr}
NameOrder == <<NameEmpty, NameSlashA, NameA, NameJcr>>

\* a child name that ends like the depth-1 suffix does
NameJson == <<"b">> \o DotJson

IsRoot(path) == path = <<>> \/ path = <<"/">>

\* crawl_path: the URL of a logical path
PathUrl(path) ==
    IF IsRoot(path) THEN base_url ELSE base_url \o <<"/">> \o LStrip(path, "/")

\* fetch_json: the URL actually fetched
JsonUrl(url) == IF ~EndsWith(url, DotJson) THEN url \o Depth1Suffix ELSE url

\* (variant) the child name is joined to the root path like to any other
ChildPathAlwaysJoined(path, key) == RStrip(path, "/") \o <<"/">> \o key

\* crawl_path: the logical path of a child
ChildPath(path, key) ==
    IF IsRoot(path) THEN key ELSE RStrip(path, "/") \o <<"/">> \o key

\* crawl_path: the URL of an asset child
AssetUrl(child_path) == base_url \o <<"/">> \o LStrip(child_path, "/")

----------------------------------------------------------------------------
(* What the Transport can hand back *)

FolderTypes == {"sling:Folder", "nt:unstructured"}
AssetType == "dam:Asset"

\* a value of a folder description: a non-object, or an object with its
\* jcr:primaryType ("" when the key is absent, as value.get(..., '') gives)
NonObject == [isDict |-> FALSE, ptype |-> ""]
Node(p) == [isDict |-> TRUE, ptype |-> p]

\* the values the remote namespace may give each name
Options(name) ==
    IF name = NameA
    THEN {NonObject, Node("sling:Folder"), Node(AssetType), Node("cq:Page")}
    ELSE IF name = NameSlashA
    THEN {Node("nt:unstructured"), Node(AssetType)}
    ELSE {Node("sling:Folder")}

\* the folder descriptions: the JSON objects over the names
Objects ==
    UNION {{f \in [S -> UNION {Options(n) : n \in S}] :
                \A n \in S : f[n] \in Options(n)} : S \in SUBSET Names}

Sizes == 0..MaxSize
NoEntries == [k \in {} |-> NonObject]

\* kind: "http" (a response arrived), "timeout" (httpx.TimeoutException),
\* "exc" (any other exception of client.get).
\* body: the response content as json.loads sees it: "malformed" (raises
\* JSONDecodeError), "falsy" (a non-object JSON value Python treats as false:
\* null, 0, "", [], false), "truthy" (any other non-object JSON value),
\* "object" (a JSON object, entries giving its members); "bytes" where the
\* content is not parsed.
\* saveOk: whether writing the body under output_dir succeeds.
Response(kind, status, size, body, entries, saveOk) ==
    [kind |-> kind, status |-> status, size |-> size, body |-> body,
     entries |-> entries, saveOk |-> saveOk]

Failures == {Response(k, 0, 0, "bytes", NoEntries, TRUE) : k \in {"timeout", "exc"}}

\* what a folder fetch may be answered
JsonResponses ==
    Failures
    \cup {Response("http", 404, 0, "bytes", NoEntries, TRUE)}
    \cup {Response("http", 200, 0, "malformed", NoEntries, TRUE)}
    \cup {Response("http", 200, 1, b, NoEntries, TRUE) : b \in {"falsy", "truthy"}}
    \cup {Response("http", 200, 1, "object", e, TRUE) : e \in Objects}

\* what an asset fetch may be answered
AssetResponses ==
    Failures
    \cup {Response("http", 404, n, "bytes", NoEntries, TRUE) : n \in Sizes}
    \cup {Response("http", 200, n, "bytes", NoEntries, ok) : n \in Sizes, ok \in BOOLEAN}

----------------------------------------------------------------------------
(* Shared state helpers *)

\* (variant) names with the jcr: prefix are kept
KeptKeysAnyName(entries) == {k \in DOMAIN entries : entries[k].isDict}

\* (variant) failures are printed but not appended
LogResultSuccessOnly(res, url, status, size, type, message) ==
    IF type = "error" THEN res
    ELSE Append(res, [url |-> url, status |-> status, size |-> size,
                      type |-> type, message |-> message])

\* _log_result: append one record to self.results
LogResult(res, url, status, size, type, message) ==
    Append(res, [url |-> url, status |-> status, size |-> size,
                 type |-> type, message |-> message])

\* the keys crawl_path does not skip: no jcr: prefix, value is a dict
KeptKeys(entries) ==
    {k \in DOMAIN entries : ~StartsWith(k, JcrPrefix) /\ entries[k].isDict}

\* (variant) only sling:Folder children are crawled
FolderKeysSlingOnly(entries) ==
    {k \in DOMAIN entries :
        ~StartsWith(k, JcrPrefix) /\ entries[k].isDict /\ entries[k].ptype = "sling:Folder"}

FolderKeys(entries) == {k \in KeptKeys(entries) : entries[k].ptype \in FolderTypes}
AssetKeys(entries) == {k \in KeptKeys(entries) : entries[k].ptype = AssetType}

\* (variant) a node is stored for the children that are crawled only
StoreNodesFoldersOnly(struct, pstruct, entries) ==
    LET new == {Append(pstruct, k) : k \in FolderKeys(entries)}
    IN  [kp \in DOMAIN struct \cup new |->
            IF kp \in DOMAIN struct THEN struct[kp]
            ELSE entries[kp[Len(kp)]].ptype]

\* crawl_path: if key not in parent_structure: parent_structure[key] = {...}
StoreNodes(struct, pstruct, entries) ==
    LET new == {Append(pstruct, k) : k \in KeptKeys(entries)}
    IN  [kp \in DOMAIN struct \cup new |->
            IF kp \in DOMAIN struct THEN struct[kp]
            ELSE entries[kp[Len(kp)]].ptype]

\* crawl_path: the coroutines appended to tasks, in a fixed order of the keys
NewTask(parent, path, pstruct, key, entries) ==
    IF entries[key].ptype \in FolderTypes
    THEN [kind |-> "crawl", path |-> ChildPath(path, key), url |-> <<>>,
          parent |-> parent, pstruct |-> Append(pstruct, key),
          pc |-> "start", claimed |-> FALSE]
    ELSE [kind |-> "asset", path |-> ChildPath(path, key),
          url |-> AssetUrl(ChildPath(path, key)),
          parent |-> parent, pstruct |-> Append(pstruct, key),
          pc |-> "start", claimed |-> FALSE]

RECURSIVE SpawnFrom(_, _, _, _, _)
SpawnFrom(i, parent, path, pstruct, entries) ==
    IF i > Len(NameOrder) THEN <<>>
    ELSE LET k == NameOrder[i]
             rest == SpawnFrom(i + 1, parent, path, pstruct, entries)
         IN  IF k \in FolderKeys(entries) \cup AssetKeys(entries)
             THEN <<NewTask(parent, path, pstruct, k, entries)>> \o rest
             ELSE rest

Spawned(parent, path, pstruct, entries) == SpawnFrom(1, parent, path, pstruct, entries)

Children(t) == {c \in DOMAIN tasks : tasks[c].parent = t}
Terminal(t) == tasks[t].pc \in {"done", "failed"}

----------------------------------------------------------------------------
(* Initial state: SlingCrawler.__init__ *)

Init ==
    /\ max_concurrent \in 1..MaxConcurrent
    /\ output_dir \in BOOLEAN
    /\ visited_urls = {}
    /\ structure = [kp \in {} |-> ""]
    /\ results = <<>>
    /\ stats = [folders |-> 0, assets |-> 0, errors |-> 0, total_bytes |-> 0]
    /\ semaphore = max_concurrent
    /\ tasks = <<>>
    /\ requests = EmptyBag
    /\ crawlPc = "init"
    /\ report = FALSE

----------------------------------------------------------------------------
(* fetch_json and fetch_asset, from the answer of client.get to their return *)

\* (variant) the error is logged but not counted
ErrorsNotCounted(st) == st

\* self.stats['errors'] += 1
IncErrors(st) == [st EXCEPT !.errors = @ + 1]

\* fetch_json, lines 70-97: the record logged, the counters, and the value
\* returned as data ("None", or the body kind json.loads produced)
FetchJson(res, st, url, r) ==
    IF r.kind = "timeout"
    THEN [results |-> LogResult(res, url, 0, 0, "error", "Timeout"),
          stats |-> IncErrors(st), data |-> "None"]
    ELSE IF r.kind = "exc"
    THEN [results |-> LogResult(res, url, 0, 0, "error", "exception"),
          stats |-> IncErrors(st), data |-> "None"]
    ELSE IF r.status # 200
    THEN [results |-> LogResult(res, url, r.status, r.size, "error", "HTTP"),
          stats |-> IncErrors(st), data |-> "None"]
    ELSE IF r.body = "malformed"
    THEN [results |-> LogResult(res, url, r.status, r.size, "error", "Invalid JSON"),
          stats |-> IncErrors(st), data |-> "None"]
    ELSE [results |-> LogResult(res, url, r.status, r.size, "folder", ""),
          stats |-> st, data |-> r.body]

\* crawl_path, line 179: "not data" for the value fetch_json returned
NotData(data, entries) ==
    \/ data \in {"None", "falsy"}
    \/ data = "object" /\ DOMAIN entries = {}

\* fetch_asset, lines 107-135
FetchAsset(res, st, url, r, saving) ==
    IF r.kind = "timeout"
    THEN [results |-> LogResult(res, url, 0, 0, "error", "Timeout"),
          stats |-> IncErrors(st)]
    ELSE IF r.kind = "exc"
    THEN [results |-> LogResult(res, url, 0, 0, "error", "exception"),
          stats |-> IncErrors(st)]
    ELSE LET st1 == [st EXCEPT !.total_bytes = @ + r.size]
         IN  IF r.status # 200
             THEN [results |-> LogResult(res, url, r.status, r.size, "error", "HTTP"),
                   stats |-> IncErrors(st1)]
             ELSE LET st2 == [st1 EXCEPT !.assets = @ + 1]
                  IN  IF saving /\ ~r.saveOk
                      THEN [results |-> LogResult(res, url, 0, 0, "error", "exception"),
                            stats |-> IncErrors(st2)]
                      ELSE [results |-> LogResult(res, url, r.status, r.size, "asset",
                                                  IF saving THEN "Saved" ELSE ""),
                            stats |-> st2]

\* async with self.semaphore: the permit taken and given back
Acquired(sem) == sem - 1

\* (variant) the permit is not given back when client.get times out
ReleasedUnlessTimeout(sem, r) == IF r.kind = "timeout" THEN sem ELSE sem + 1

\* (variant) the permit is kept while crawl_path goes through the
\* description and waits for the children
ReleasedUnlessListing(sem, r) ==
    IF r.kind = "http" /\ r.status = 200 /\ r.body = "object" /\ DOMAIN r.entries # {}
    THEN sem ELSE sem + 1

Released(sem, r) == sem + 1

\* (variant) the membership test never finds the URL
IsVisitedNever(visited, url) == FALSE

\* the membership test and the insertion of fetch_json / fetch_asset
IsVisited(visited, url) == url \in visited

\* (variant) the URL is not recorded before the GET
ClaimNotRecorded(visited, url) == visited

Claim(visited, url) == visited \cup {url}

\* the URL a coroutine claims and fetches
TargetUrl(t) ==
    IF tasks[t].kind = "crawl" THEN JsonUrl(PathUrl(tasks[t].path)) ELSE tasks[t].url

\* (variant) the awaiting coroutine resumes when the first child is over
GatherFirstDone(t) == \E c \in Children(t) : Terminal(c)

\* asyncio.gather: the awaiting coroutine resumes when every child is over
GatherDone(t) == \A c \in Children(t) : Terminal(c)

----------------------------------------------------------------------------
(* Actions *)

\* crawl(), line 243: crawl_path(client, '/', self.structure)
RootTask == [kind |-> "crawl", path |-> <<"/">>, url |-> <<>>, parent |-> 0,
             pstruct |-> <<>>, pc |-> "start", claimed |-> FALSE]

\* crawl(): start of the run, the root crawl_path created
CrawlBegin ==
    /\ crawlPc = "init"
    /\ crawlPc' = "running"
    /\ tasks' = <<RootTask>>
    /\ UNCHANGED <<max_concurrent, output_dir, visited_urls, structure, results,
                   stats, semaphore, requests, report>>

\* a coroutine runs from its first line to its first suspension: the URL is
\* computed, the visited test made, and either it returns (duplicate), or it
\* takes a permit and issues the GET, or it queues on the semaphore
Start(t) ==
    /\ tasks[t].pc = "start"
    /\ LET url == TargetUrl(t)
       IN  IF IsVisited(visited_urls, url)
           THEN /\ tasks' = [tasks EXCEPT ![t].pc = "done", ![t].url = url]
                /\ UNCHANGED <<visited_urls, semaphore, requests>>
           ELSE /\ visited_urls' = Claim(visited_urls, url)
                /\ \/ /\ semaphore > 0
                      /\ semaphore' = Acquired(semaphore)
                      /\ requests' = requests (+) SetToBag({url})
                      /\ tasks' = [tasks EXCEPT ![t].pc = "inflight", ![t].url = url,
                                                ![t].claimed = TRUE]
                   \/ /\ \/ semaphore = 0
                         \/ \E w \in DOMAIN tasks : tasks[w].pc = "waitsem"
                      /\ tasks' = [tasks EXCEPT ![t].pc = "waitsem", ![t].url = url,
                                                ![t].claimed = TRUE]
                      /\ UNCHANGED <<semaphore, requests>>
    /\ UNCHANGED <<max_concurrent, output_dir, structure, results, stats, crawlPc, report>>

\* a coroutine queued on the semaphore gets a permit and issues the GET
Acquire(t) ==
    /\ tasks[t].pc = "waitsem"
    /\ semaphore > 0
    /\ semaphore' = Acquired(semaphore)
    /\ requests' = requests (+) SetToBag({tasks[t].url})
    /\ tasks' = [tasks EXCEPT ![t].pc = "inflight"]
    /\ UNCHANGED <<max_concurrent, output_dir, visited_urls, structure, results,
                   stats, crawlPc, report>>

\* client.get of fetch_json is over with r; fetch_json returns and crawl_path
\* runs on to its return, its exception or its gather
ReceiveJson(t, r) ==
    /\ tasks[t].pc = "inflight"
    /\ tasks[t].kind = "crawl"
    /\ LET fj == FetchJson(results, stats, tasks[t].url, r)
           kids == Spawned(t, tasks[t].path, tasks[t].pstruct, r.entries)
       IN  /\ results' = fj.results
           /\ semaphore' = Released(semaphore, r)
           /\ IF NotData(fj.data, r.entries)
              THEN /\ stats' = fj.stats
                   /\ tasks' = [tasks EXCEPT ![t].pc = "done"]
                   /\ UNCHANGED structure
              ELSE /\ stats' = [fj.stats EXCEPT !.folders = @ + 1]
                   /\ IF fj.data # "object"
                      THEN \* data.items() raises AttributeError
                           /\ tasks' = [tasks EXCEPT ![t].pc = "failed"]
                           /\ UNCHANGED structure
                      ELSE /\ Len(tasks) + Len(kids) <= MaxTasks
                           /\ structure' = StoreNodes(structure, tasks[t].pstruct, r.entries)
                           /\ tasks' = [tasks EXCEPT ![t].pc =
                                            IF kids = <<>> THEN "done" ELSE "gather"] \o kids
    /\ UNCHANGED <<max_concurrent, output_dir, visited_urls, requests, crawlPc, report>>

\* client.get of fetch_asset is over with r; fetch_asset runs on to its return
ReceiveAsset(t, r) ==
    /\ tasks[t].pc = "inflight"
    /\ tasks[t].kind = "asset"
    /\ LET fa == FetchAsset(results, stats, tasks[t].url, r, output_dir)
       IN  /\ results' = fa.results
           /\ stats' = fa.stats
    /\ semaphore' = Released(semaphore, r)
    /\ tasks' = [tasks EXCEPT ![t].pc = "done"]
    /\ UNCHANGED <<max_concurrent, output_dir, visited_urls, structure, requests, crawlPc, report>>

\* asyncio.gather(*tasks, return_exceptions=True) is over: crawl_path returns
Join(t) ==
    /\ tasks[t].pc = "gather"
    /\ GatherDone(t)
    /\ tasks' = [tasks EXCEPT ![t].pc = "done"]
    /\ UNCHANGED <<max_concurrent, output_dir, visited_urls, structure, results,
                   stats, semaphore, requests, crawlPc, report>>

\* crawl(): the root crawl_path returned; end_time, _print_summary and
\* _save_outputs
Finish ==
    /\ crawlPc = "running"
    /\ tasks[1].pc = "done"
    /\ crawlPc' = "ended"
    /\ report' = TRUE
    /\ UNCHANGED <<max_concurrent, output_dir, visited_urls, structure, results,
                   stats, semaphore, tasks, requests>>

\* crawl(): the root crawl_path raised; the exception leaves crawl()
Abort ==
    /\ crawlPc = "running"
    /\ tasks[1].pc = "failed"
    /\ crawlPc' = "aborted"
    /\ UNCHANGED <<max_concurrent, output_dir, visited_urls, structure, results,
                   stats, semaphore, tasks, requests, report>>

Next ==
    \/ CrawlBegin
    \/ \E t \in DOMAIN tasks : Start(t)
    \/ \E t \in DOMAIN tasks : Acquire(t)
    \/ \E t \in DOMAIN tasks : \E r \in JsonResponses : ReceiveJson(t, r)
    \/ \E t \in DOMAIN tasks : \E r \in AssetResponses : ReceiveAsset(t, r)
    \/ \E t \in DOMAIN tasks : Join(t)
    \/ Finish
    \/ Abort

Spec == Init /\ [][Next]_vars

----------------------------------------------------------------------------
(* The run over a namespace that also holds objects with no jcr:primaryType, *)
(* every GET answered 200 with a well-formed body.                           *)

TypedOptions(name) ==
    IF name = NameA THEN Options(NameA) \cup {Node("")} ELSE Options(name)

TypedObjects ==
    UNION {{f \in [S -> UNION {TypedOptions(n) : n \in S}] :
                \A n \in S : f[n] \in TypedOptions(n)} : S \in SUBSET Names}

OkJsonResponses == {Response("http", 200, 1, "object", e, TRUE) : e \in TypedObjects}
OkAssetResponses == {Response("http", 200, n, "bytes", NoEntries, TRUE) : n \in Sizes}

OkNext ==
    \/ CrawlBegin
    \/ \E t \in DOMAIN tasks : Start(t)
    \/ \E t \in DOMAIN tasks : Acquire(t)
    \/ \E t \in DOMAIN tasks : \E r \in OkJsonResponses : ReceiveJson(t, r)
    \/ \E t \in DOMAIN tasks : \E r \in OkAssetResponses : ReceiveAsset(t, r)
    \/ \E t \in DOMAIN tasks : Join(t)
    \/ Finish

OkSpec == Init /\ [][OkNext]_vars

----------------------------------------------------------------------------
(* The run under fair scheduling *)

\* The event loop runs every coroutine that can run, and every client.get
\* returns or raises in the end (the timeout of the client bounds it)
FairSpec == Spec /\ WF_vars(Next)

----------------------------------------------------------------------------
(* The run under an external interrupt (SIGINT) *)

\* asyncio.run(crawler.crawl()) is interrupted: the coroutines of the run are
\* cancelled where they wait (CancelledError is not an Exception, so no
\* handler of fetch_json / fetch_asset logs it), `async with self.semaphore`
\* gives the permits back, and KeyboardInterrupt leaves asyncio.run
Interrupt ==
    /\ crawlPc = "running"
    /\ crawlPc' = "interrupted"
    /\ tasks' = [t \in DOMAIN tasks |->
                    IF Terminal(t) THEN tasks[t] ELSE [tasks[t] EXCEPT !.pc = "cancelled"]]
    /\ semaphore' = semaphore + Cardinality({t \in DOMAIN tasks : tasks[t].pc = "inflight"})
    /\ UNCHANGED <<max_concurrent, output_dir, visited_urls, structure, results,
                   stats, requests, report>>

\* main(), lines 366-368: except KeyboardInterrupt: print, sys.exit(1)
Exit ==
    /\ crawlPc = "interrupted"
    /\ crawlPc' = "exited"
    /\ UNCHANGED <<max_concurrent, output_dir, visited_urls, structure, results,
                   stats, semaphore, tasks, requests, report>>

InterruptNext == Next \/ Interrupt \/ Exit

InterruptSpec == Init /\ [][InterruptNext]_vars

----------------------------------------------------------------------------
(* The path and URL computation of crawl_path on its own: a chain of calls, *)
(* each made for one child named in the description its parent received.    *)

PathNames == Names \cup {NameJson}
ChildTypes == FolderTypes \cup {AssetType}

PathInit ==
    /\ max_concurrent = 1
    /\ output_dir = FALSE
    /\ visited_urls = {}
    /\ structure = [kp \in {} |-> ""]
    /\ results = <<>>
    /\ stats = [folders |-> 0, assets |-> 0, errors |-> 0, total_bytes |-> 0]
    /\ semaphore = max_concurrent
    /\ tasks = <<RootTask>>
    /\ requests = EmptyBag
    /\ crawlPc = "running"
    /\ report = FALSE

\* crawl_path, lines 188-215, for the one entry key of the description: the
\* child path and URL computed and the coroutine created
Descend(key, ptype) ==
    LET last == tasks[Len(tasks)]
        entries == [k \in {key} |-> Node(ptype)]
    IN  /\ last.kind = "crawl"
        /\ Len(tasks) <= MaxDepth
        /\ key \in FolderKeys(entries) \cup AssetKeys(entries)
        /\ tasks' = Append(tasks, NewTask(Len(tasks), last.path, last.pstruct, key, entries))
        /\ UNCHANGED <<max_concurrent, output_dir, visited_urls, structure, results,
                       stats, semaphore, requests, crawlPc, report>>

PathNext == \E key \in PathNames : \E ptype \in ChildTypes : Descend(key, ptype)

PathSpec == PathInit /\ [][PathNext]_vars

----------------------------------------------------------------------------
(* Properties *)

InFlight == {t \in DOMAIN tasks : tasks[t].pc = "inflight"}
Started == {t \in DOMAIN tasks : tasks[t].pc # "start"}
Sum3(st) == st.folders + st.assets + st.errors

\* C1: at-most-once dispatch. Every URL handed to client.get was handed to it
\* exactly once, and among the coroutines that reached the visited test for
\* one URL exactly one claimed it (issues the GET), every other one has
\* returned without a GET.
AtMostOnceDispatch ==
    /\ \A u \in BagToSet(requests) : CopiesIn(u, requests) = 1
    /\ \A t \in Started :
          /\ Cardinality({w \in Started : tasks[w].url = tasks[t].url /\ tasks[w].claimed}) = 1
          /\ ~tasks[t].claimed => tasks[t].pc = "done"
    /\ BagCardinality(requests) =
          Cardinality({t \in DOMAIN tasks : tasks[t].claimed /\ tasks[t].pc # "waitsem"})

\* C1 witness: two coroutines raced for one URL; one issued the GET, the
\* other skipped it.
RaceWitness ==
    \E t, w \in Started :
        /\ t # w
        /\ tasks[t].url = tasks[w].url
        /\ tasks[t].claimed /\ ~tasks[w].claimed
        /\ CopiesIn(tasks[t].url, requests) = 1

\* C2: counter conservation. When the root crawl has completed, folders +
\* assets + errors equals the number of claimed URLs.
CounterConservation ==
    crawlPc = "ended" => Sum3(stats) = Cardinality(visited_urls)

\* C3: limiter accounting. Free permits plus GETs in flight equal the
\* configured ceiling, so the GETs in flight never exceed it.
LimiterAccounting ==
    /\ semaphore + Cardinality(InFlight) = max_concurrent
    /\ semaphore >= 0
    /\ Cardinality(InFlight) <= max_concurrent

\* C3 witness: after a GET that timed out gave its permit back, the ceiling
\* is reached again: max_concurrent GETs in flight, no permit free.
LimiterWitness ==
    /\ \E i \in DOMAIN results : results[i].message = "Timeout"
    /\ Cardinality(InFlight) = max_concurrent
    /\ semaphore = 0

\* a crawl_path that is over has no child pending or running, and once
\* crawl() has recorded end_time no coroutine of the run is pending or running
JoinBarrierState ==
    /\ \A t \in DOMAIN tasks : Terminal(t) => \A c \in Children(t) : Terminal(c)
    /\ crawlPc = "ended" => \A t \in DOMAIN tasks : Terminal(t)

\* C4: join barrier. A crawl_path returns only after every sub-task it
\* spawned has completed or failed; when crawl() records end_time no coroutine
\* of the run is pending or in flight, and no record, counter, node or
\* visited URL changes afterwards.
JoinBarrier ==
    /\ []JoinBarrierState
    /\ [][crawlPc = "ended" => UNCHANGED <<results, stats, structure, visited_urls>>]_vars

\* C4 witness: the run ended after a crawl_path two levels below the root
\* (a sub-task of a sub-task) ran.
JoinWitness ==
    /\ crawlPc = "ended"
    /\ \E t \in DOMAIN tasks :
          /\ tasks[t].parent # 0
          /\ tasks[tasks[t].parent].parent # 0
          /\ tasks[t].claimed

----------------------------------------------------------------------------
(* Outcome of one fetch *)

TransportFailed(r) == r.kind \in {"timeout", "exc"}
FolderFetchFails(r) == TransportFailed(r) \/ r.status # 200 \/ r.body = "malformed"
AssetFetchFails(r) == TransportFailed(r) \/ r.status # 200

FolderFailures == {x \in JsonResponses : FolderFetchFails(x)}
AssetFailures == {x \in AssetResponses : AssetFetchFails(x)}
FolderObjects == {x \in JsonResponses : ~FolderFetchFails(x) /\ x.body = "object"}
NotAnObject == {x \in JsonResponses : x.kind = "http" /\ x.status = 200 /\ x.body # "object"}

\* the step appended exactly one record, of this type and status, for t's URL
OneRecord(t, type, status) ==
    /\ Len(results') = Len(results) + 1
    /\ SubSeq(results', 1, Len(results)) = results
    /\ results'[Len(results')].url = tasks[t].url
    /\ results'[Len(results')].type = type
    /\ results'[Len(results')].status = status

StatusOf(r) == IF TransportFailed(r) THEN 0 ELSE r.status

HasErrorRecord(t) ==
    \E i \in DOMAIN results : results[i].url = tasks[t].url /\ results[i].type = "error"

\* C5: failure isolation. When the fetch of a child fails (timeout, exception,
\* non-200 status, undecodable body), the step changes the counters by +1
\* error and nothing else, leaves every other coroutine and the structure as
\* they are, and the parent still returns normally, after all its children.
FailureIsolation ==
    /\ [][\A t \in DOMAIN tasks : tasks[t].parent # 0 =>
            /\ \A r \in FolderFailures :
                  ReceiveJson(t, r) =>
                      /\ stats' = [stats EXCEPT !.errors = @ + 1]
                      /\ structure' = structure
                      /\ \A s \in DOMAIN tasks' \ {t} : s \in DOMAIN tasks /\ tasks'[s] = tasks[s]
            /\ \A r \in AssetFailures :
                  ReceiveAsset(t, r) =>
                      /\ stats' = [stats EXCEPT !.errors = @ + 1]
                      /\ structure' = structure
                      /\ \A s \in DOMAIN tasks' \ {t} : s \in DOMAIN tasks /\ tasks'[s] = tasks[s]]_vars
    /\ [](\A p \in DOMAIN tasks :
            /\ tasks[p].pc = "done" => \A c \in Children(p) : Terminal(c)
            /\ Children(p) # {} => tasks[p].pc # "failed")

\* C6: failure locality. No failure leaves the coroutine that met it as an
\* exception, and crawl() is never left by one: the run is never aborted.
FailureLocality ==
    /\ crawlPc # "aborted"
    /\ \A t \in DOMAIN tasks : tasks[t].pc # "failed"

\* C7: folder fetch failure outcome. A folder fetch ending with a non-200
\* status, a timeout or other exception, or a body json.loads cannot decode
\* appends exactly one error record carrying the status (0 for a transport
\* failure), adds 1 to errors, leaves folders alone, returns, and no child is
\* ever dispatched from that coroutine.
FolderFailureOutcome ==
    /\ [][\A t \in DOMAIN tasks :
            \A r \in FolderFailures :
               ReceiveJson(t, r) =>
                   /\ OneRecord(t, "error", StatusOf(r))
                   /\ stats'.errors = stats.errors + 1
                   /\ stats'.folders = stats.folders
                   /\ Len(tasks') = Len(tasks)
                   /\ tasks'[t].pc = "done"]_vars
    /\ [](\A t \in DOMAIN tasks :
            tasks[t].kind = "crawl" /\ tasks[t].claimed /\ HasErrorRecord(t)
                => Children(t) = {} /\ tasks[t].pc = "done")

\* C7 witness: a child folder answered 404; its error record carries 404, the
\* error is counted and the coroutine returned without children.
FolderFailureWitness ==
    \E t \in DOMAIN tasks : \E i \in DOMAIN results :
        /\ tasks[t].kind = "crawl" /\ tasks[t].parent # 0 /\ tasks[t].claimed
        /\ results[i].url = tasks[t].url
        /\ results[i].type = "error" /\ results[i].status = 404
        /\ stats.errors >= 1
        /\ tasks[t].pc = "done" /\ Children(t) = {}

\* C8: folder fetch success outcome. A folder fetch answered 200 with a JSON
\* object (an empty one included) appends exactly one folder record and adds
\* 1 to folders; at the end folders equals the number of folder records.
FolderSuccessOutcome ==
    /\ [][\A t \in DOMAIN tasks :
            \A r \in FolderObjects :
               ReceiveJson(t, r) =>
                   /\ OneRecord(t, "folder", 200)
                   /\ stats'.folders = stats.folders + 1]_vars
    /\ [](crawlPc = "ended" =>
            stats.folders = Cardinality({i \in DOMAIN results : results[i].type = "folder"}))

\* C9: decode error on a non-object body. A folder fetch answered 200 with a
\* body that is not a well-formed JSON object (malformed, or a JSON array,
\* string, number, boolean or null) appends an error record, adds 1 to
\* errors, leaves folders alone, and the coroutine returns without children.
DecodeErrorOutcome ==
    [][\A t \in DOMAIN tasks :
          \A r \in NotAnObject :
             ReceiveJson(t, r) =>
                 /\ OneRecord(t, "error", 200)
                 /\ stats'.errors = stats.errors + 1
                 /\ stats'.folders = stats.folders
                 /\ Len(tasks') = Len(tasks)
                 /\ tasks'[t].pc = "done"]_vars

\* C10: asset fetch outcome. 200 with N bytes adds 1 to assets and N to
\* total_bytes and appends one asset record; any other outcome appends one
\* error record and adds 1 to errors, with assets and total_bytes unchanged;
\* fetch_asset never creates a coroutine.
AssetOutcome ==
    [][\A t \in DOMAIN tasks : \A r \in AssetResponses :
          ReceiveAsset(t, r) =>
              /\ Len(tasks') = Len(tasks)
              /\ IF AssetFetchFails(r)
                 THEN /\ OneRecord(t, "error", StatusOf(r))
                      /\ stats' = [stats EXCEPT !.errors = @ + 1]
                 ELSE /\ OneRecord(t, "asset", 200)
                      /\ stats' = [stats EXCEPT !.assets = @ + 1,
                                                !.total_bytes = @ + r.size]]_vars

----------------------------------------------------------------------------
(* Paths and URLs *)

\* a child name as a slash-delimited path has them: not empty, no "/" in it
ProperName(c) == c # <<>> /\ \A i \in DOMAIN c : c[i] # "/"
ProperChain(t) == \A i \in DOMAIN tasks[t].pstruct : ProperName(tasks[t].pstruct[i])

RECURSIVE JoinNames(_)
JoinNames(names) ==
    IF Len(names) = 1 THEN names[1]
    ELSE JoinNames(SubSeq(names, 1, Len(names) - 1)) \o <<"/">> \o names[Len(names)]

\* the URL the claim gives the logical path p of a folder, and of an asset
FolderUrlOf(p) ==
    IF IsRoot(p) THEN base_url \o Depth1Suffix ELSE base_url \o <<"/">> \o p \o Depth1Suffix
AssetUrlOf(p) == base_url \o <<"/">> \o p

\* C11: URL mapping is exact. For every logical path made of child names
\* (names ending in ".json" included) the folder description is fetched at
\* base + "/" + p + "/.1.json" (base + "/.1.json" for the root), the suffix
\* appended exactly once, and the asset at base + "/" + p.
UrlMapping ==
    \A t \in DOMAIN tasks :
        ProperChain(t) =>
            IF tasks[t].kind = "crawl"
            THEN TargetUrl(t) = FolderUrlOf(tasks[t].path)
            ELSE TargetUrl(t) = AssetUrlOf(tasks[t].path)

\* the path of coroutine t is its parent's path joined with its own name
JoinedToParent(t) ==
    LET p == tasks[tasks[t].parent].path
        c == tasks[t].pstruct[Len(tasks[t].pstruct)]
    IN  tasks[t].path = IF IsRoot(p) THEN c ELSE p \o <<"/">> \o c

SingleSeparators(path) ==
    /\ path # <<>> => path[1] # "/"
    /\ \A i \in 1..(Len(path) - 1) : ~(path[i] = "/" /\ path[i + 1] = "/")

PathOf(t) ==
    /\ JoinedToParent(t)
    /\ SingleSeparators(tasks[t].path)
    /\ tasks[t].path = JoinNames(tasks[t].pstruct)

\* C14 as stated, for any child name: the root joined with c gives c, a
\* non-root p joined with c gives p + "/" + c, with no doubled, leading or
\* missing separator, and the path of a node at any depth is its ancestor
\* names joined by single "/".
PathNormalization ==
    \A t \in DOMAIN tasks : tasks[t].parent # 0 => PathOf(t)

\* C14: path normalization, for child names that are not empty and hold no
\* "/": the root joined with c gives c, a non-root p joined with c gives
\* p + "/" + c, with no doubled, leading or missing separator, and the path
\* of a node at any depth is its ancestor names joined by single "/".
PathNormalizationProperNames ==
    \A t \in DOMAIN tasks : tasks[t].parent # 0 /\ ProperChain(t) => PathOf(t)

\* C14 witness: a node three names below the root, one of the names ending
\* in ".json"
PathWitness ==
    \E t \in DOMAIN tasks :
        /\ Len(tasks[t].pstruct) = 3
        /\ ProperChain(t)
        /\ \E i \in 1..3 : tasks[t].pstruct[i] = NameJson

----------------------------------------------------------------------------
(* External interrupt *)

\* once interrupted, the step changes neither the coroutines nor the shared data
AfterInterrupt ==
    crawlPc \in {"interrupted", "exited"} =>
        /\ Len(tasks') = Len(tasks)
        /\ UNCHANGED <<requests, visited_urls, results, stats, structure>>

\* C12: external interrupt terminates cleanly. After the interrupt no
\* coroutine is created and no GET issued, the visited set, the records, the
\* counters and the structure stay as they were, and when the process is
\* over the final report (summary and outputs) has been produced.
InterruptReport ==
    /\ [][AfterInterrupt]_vars
    /\ [](crawlPc = "exited" => report)

----------------------------------------------------------------------------
(* Classification and dispatch *)

\* the class the claims give an entry of a folder description
Classify(k, v) ==
    IF StartsWith(k, JcrPrefix) \/ ~v.isDict THEN "Ignore"
    ELSE IF v.ptype \in {"sling:Folder", "nt:unstructured"} THEN "Folder"
    ELSE IF v.ptype = "dam:Asset" THEN "Asset"
    ELSE "Ignore"

\* the folder descriptions crawl_path goes through: JSON objects with entries
Listings == {x \in FolderObjects : DOMAIN x.entries # {}}

\* the child names of the coroutines crawl_path creates for a description,
\* and the Listings by these names
NamesSpawned(entries) ==
    LET kids == Spawned(0, <<"/">>, <<>>, entries)
    IN  [i \in DOMAIN kids |-> kids[i].pstruct[1]]
SubSeqsOfNameOrder == {NamesSpawned(x.entries) : x \in JsonResponses}
ListingsSpawning ==
    [ks \in SubSeqsOfNameOrder |-> {x \in Listings : NamesSpawned(x.entries) = ks}]

\* the child names of the coroutines the step created
CreatedNames ==
    [i \in 1..(Len(tasks') - Len(tasks)) |->
        LET ps == tasks'[Len(tasks) + i].pstruct IN ps[Len(ps)]]

\* the step is the one in which the GET of t is over
Answered(t) == tasks[t].pc = "inflight" /\ tasks'[t].pc # "inflight"

\* the coroutines the step created for entry k of the description t received
MadeFor(t, k) ==
    {i \in DOMAIN tasks' \ DOMAIN tasks :
        tasks'[i].parent = t /\ tasks'[i].pstruct = Append(tasks[t].pstruct, k)}

DispatchedAsClassified(t, r) ==
    /\ \A i \in DOMAIN tasks' \ DOMAIN tasks : \E k \in DOMAIN r.entries : i \in MadeFor(t, k)
    /\ \A k \in DOMAIN r.entries :
          LET class == Classify(k, r.entries[k])
              made == MadeFor(t, k)
          IN  /\ class = "Folder" =>
                    /\ Cardinality(made) = 1
                    /\ \A i \in made : /\ tasks'[i].kind = "crawl"
                                        /\ tasks'[i].path = ChildPath(tasks[t].path, k)
                                        /\ tasks'[i].pc = "start"
              /\ class = "Asset" =>
                    /\ Cardinality(made) = 1
                    /\ \A i \in made : /\ tasks'[i].kind = "asset"
                                        /\ tasks'[i].url = AssetUrl(ChildPath(tasks[t].path, k))
                                        /\ tasks'[i].pc = "start"
              /\ class = "Ignore" => made = {}

\* C13: classification drives dispatch. Of a fetched folder description every
\* entry is exactly one of Folder, Asset, Ignore (jcr:-prefixed names and
\* non-object values always Ignore); a Folder entry creates exactly one
\* crawl_path of the child path, an Asset entry exactly one fetch_asset, which
\* never creates a coroutine, and an Ignore entry creates nothing, so that no
\* GET is ever issued for it.
ClassificationDispatch ==
    /\ [][\A t \in DOMAIN tasks :
            Answered(t) =>
                \A r \in ListingsSpawning[CreatedNames] :
                    ReceiveJson(t, r) => DispatchedAsClassified(t, r)]_vars
    /\ [](\A t \in DOMAIN tasks : tasks[t].kind = "asset" => Children(t) = {})
    /\ [](BagCardinality(requests) <= Len(tasks))

\* C13 witness: the root description held a Folder, an Asset and an Ignore
\* entry of type cq:Page; one crawl_path and one fetch_asset exist, and no
\* coroutine for the ignored entry.
DispatchWitness ==
    /\ \E c \in Children(1) : tasks[c].kind = "crawl"
    /\ \E c \in Children(1) : tasks[c].kind = "asset"
    /\ \E kp \in DOMAIN structure :
          /\ Len(kp) = 1 /\ structure[kp] = "cq:Page"
          /\ \A c \in DOMAIN tasks : tasks[c].pstruct # kp

----------------------------------------------------------------------------
(* The visited set *)

\* every URL handed to client.get, waiting for a permit to be, or logged, is
\* in visited_urls, and no URL was handed to client.get twice
ClaimedFirst ==
    /\ \A u \in BagToSet(requests) : u \in visited_urls /\ CopiesIn(u, requests) = 1
    /\ \A i \in DOMAIN results : results[i].url \in visited_urls
    /\ \A t \in DOMAIN tasks :
          tasks[t].pc \in {"waitsem", "inflight"} => tasks[t].url \in visited_urls

\* the step removes no URL from visited_urls, and a URL it hands to
\* client.get is in visited_urls and had not been handed to it before
NeverRemoved ==
    /\ visited_urls \subseteq visited_urls'
    /\ \A u \in BagToSet(requests') :
          CopiesIn(u, requests') > CopiesIn(u, requests) =>
              u \in visited_urls' /\ CopiesIn(u, requests) = 0

\* C15: claim precedes dispatch. Every URL whose GET is in flight or over is
\* in visited_urls, it was inserted before the GET was issued and is never
\* removed, so a URL whose fetch failed is never fetched again.
ClaimPrecedesDispatch == []ClaimedFirst /\ [][NeverRemoved]_vars

\* C15 witness: the fetch of a URL failed, and a second coroutine for the
\* same URL returned without a GET.
NoRetryWitness ==
    \E t, w \in DOMAIN tasks :
        /\ t # w /\ tasks[t].url = tasks[w].url
        /\ tasks[t].claimed /\ HasErrorRecord(t)
        /\ ~tasks[w].claimed /\ tasks[w].pc = "done"
        /\ CopiesIn(tasks[t].url, requests) = 1

----------------------------------------------------------------------------
(* The structure tree *)

\* the nodes of the children of the node (or root map) kp
ChildNodes(kp) ==
    {c \in DOMAIN structure : Len(c) = Len(kp) + 1 /\ SubSeq(c, 1, Len(kp)) = kp}

\* the tree is well formed: a node below the first level hangs under a node,
\* and the node of every coroutine carries the type it was created for
TreeShape ==
    /\ \A kp \in DOMAIN structure :
          Len(kp) > 1 => SubSeq(kp, 1, Len(kp) - 1) \in DOMAIN structure
    /\ \A t \in DOMAIN tasks :
          tasks[t].parent # 0 =>
              /\ tasks[t].pstruct \in DOMAIN structure
              /\ IF tasks[t].kind = "crawl"
                 THEN structure[tasks[t].pstruct] \in {"sling:Folder", "nt:unstructured"}
                 ELSE structure[tasks[t].pstruct] = "dam:Asset"

\* the step leaves every node there is in place, with its type
NodesKept ==
    \A kp \in DOMAIN structure : kp \in DOMAIN structure' /\ structure'[kp] = structure[kp]

\* after the step the map of t holds, for every Folder or Asset entry of the
\* description, a node tagged with the declared type
NodesStored(t, r) ==
    \A k \in DOMAIN r.entries :
        Classify(k, r.entries[k]) \in {"Folder", "Asset"} =>
            /\ Append(tasks[t].pstruct, k) \in DOMAIN structure'
            /\ structure'[Append(tasks[t].pstruct, k)] = r.entries[k].ptype

\* C16: one structural slot per child name. After a folder description has
\* been processed the parent's map holds, for every child classified Folder
\* or Asset, one node tagged with the child's declared primary type; no step
\* of any interleaving replaces a node or overwrites its type.
OneSlotPerChild ==
    /\ []TreeShape
    /\ [][NodesKept]_vars
    /\ [][\A t \in DOMAIN tasks :
            Answered(t) =>
                \A r \in ListingsSpawning[CreatedNames] :
                    ReceiveJson(t, r) => NodesStored(t, r)]_vars

\* C16 witness: the root description held a folder child and an asset child;
\* the root map has exactly these two nodes, tagged sling:Folder and
\* dam:Asset, and the run is over.
StructureWitness ==
    /\ crawlPc = "ended"
    /\ ChildNodes(<<>>) = {<<NameA>>, <<NameSlashA>>}
    /\ structure[<<NameA>>] = "sling:Folder"
    /\ structure[<<NameSlashA>>] = "dam:Asset"

----------------------------------------------------------------------------
(* Duplicate skip *)

\* t runs its first step in this step, for a URL that is in visited_urls
MeetsVisited(t) ==
    /\ tasks[t].pc = "start" /\ tasks'[t].pc # "start"
    /\ TargetUrl(t) \in visited_urls

\* the step is a return of t and nothing else
SilentReturn(t) ==
    /\ tasks' = [tasks EXCEPT ![t].pc = "done", ![t].url = TargetUrl(t)]
    /\ UNCHANGED <<visited_urls, semaphore, requests, results, stats, structure>>

\* C17: duplicate skip leaves the state unchanged. A crawl_path/fetch_json or
\* fetch_asset invoked for a URL already in visited_urls returns with no GET,
\* no permit taken, no record appended, and no counter, visited URL or node
\* changed.
DuplicateSkip == [][\A t \in DOMAIN tasks : MeetsVisited(t) => SilentReturn(t)]_vars

\* C17 witness: two fetch_asset coroutines for one URL; the fetch of the one
\* is over and logged once, the other returned without claiming the URL.
SkipWitness ==
    \E t, w \in DOMAIN tasks :
        /\ t # w /\ tasks[t].kind = "asset" /\ tasks[w].kind = "asset"
        /\ tasks[t].url = tasks[w].url
        /\ tasks[w].claimed /\ tasks[w].pc = "done"
        /\ ~tasks[t].claimed /\ tasks[t].pc = "done"
        /\ Cardinality({i \in DOMAIN results : results[i].url = tasks[t].url}) = 1
        /\ CopiesIn(tasks[t].url, requests) = 1

----------------------------------------------------------------------------
(* Outcome records *)

RecordsOf(u) == {i \in DOMAIN results : results[i].url = u}

\* one record for every claimed URL, none for any other URL
RecordsMatchVisited ==
    /\ \A u \in visited_urls : Cardinality(RecordsOf(u)) = 1
    /\ \A i \in DOMAIN results : results[i].url \in visited_urls

\* the step leaves the records there are as they are
AppendOnly ==
    /\ Len(results') >= Len(results)
    /\ SubSeq(results', 1, Len(results)) = results

\* C18: one outcome record per claimed URL. When the crawl has completed,
\* results holds exactly one record for every URL in visited_urls and none
\* for any other URL, whatever the outcomes were (asset-save failures
\* included); records are only appended, never modified or removed.
OneRecordPerUrl ==
    /\ [](crawlPc = "ended" => RecordsMatchVisited)
    /\ [][AppendOnly]_vars

\* C18 witness: a completed crawl of three URLs in which a folder fetch
\* timed out and the save of a fetched asset failed (the asset is counted,
\* its record is an error record).
RecordsWitness ==
    /\ crawlPc = "ended"
    /\ Cardinality(visited_urls) = 3 /\ Len(results) = 3
    /\ \E i \in DOMAIN results : results[i].message = "Timeout"
    /\ stats.assets = 1
    /\ \A i \in DOMAIN results : results[i].type # "asset"

----------------------------------------------------------------------------
(* Termination *)

\* crawl() is over: it returned, or the exception of the root crawl_path left it
Terminated == crawlPc \in {"ended", "aborted"}

\* every permit that is out is held by a coroutine inside its GET: none by a
\* coroutine waiting for its children, waiting for a permit, or over; and
\* when a child of a waiting parent waits for a permit, a permit is free or
\* held by a GET in flight
PermitsWithFetchers ==
    /\ max_concurrent - semaphore = Cardinality(InFlight)
    /\ \A t \in DOMAIN tasks :
          tasks[t].pc = "gather" =>
              \A c \in Children(t) :
                  tasks[c].pc = "waitsem" => semaphore > 0 \/ InFlight # {}

\* C19: termination without deadlock. For every ceiling from 1 up, with
\* every GET returning or failing in the end, crawl() is eventually over;
\* no coroutine holds a permit while it waits for its children, so a waiting
\* parent never keeps a permit from them.
TerminationNoDeadlock == <>Terminated /\ []PermitsWithFetchers

\* C19 witness: with a ceiling of 1 a crawl of three URLs has ended: a
\* parent and two children went through the one permit.
TerminationWitness ==
    /\ max_concurrent = 1
    /\ crawlPc = "ended"
    /\ Len(results) = 3
    /\ \E t \in DOMAIN tasks : Cardinality(Children(t)) = 2

----------------------------------------------------------------------------
(* Children that are neither crawled nor fetched *)

DispatchedTypes == {"sling:Folder", "nt:unstructured", "dam:Asset"}

\* the step stored a node for every object entry of another type (or of no
\* type) under a name without the jcr: prefix and created no coroutine for
\* it, and stored no node for a jcr:-prefixed name or a non-object value
IgnoredHandled(t, r) ==
    \A k \in DOMAIN r.entries :
        LET v == r.entries[k]
            node == Append(tasks[t].pstruct, k)
        IN  IF StartsWith(k, JcrPrefix) \/ ~v.isDict
            THEN node \notin DOMAIN structure'
            ELSE v.ptype \notin DispatchedTypes =>
                     /\ node \in DOMAIN structure'
                     /\ structure'[node] = v.ptype
                     /\ MadeFor(t, k) = {}

\* the answers of the typed namespace by the child names of the coroutines
\* crawl_path creates for them
OkResponsesSpawning ==
    [ks \in {NamesSpawned(x.entries) : x \in OkJsonResponses} |->
        {x \in OkJsonResponses : NamesSpawned(x.entries) = ks}]

\* a node of another type has no child node and no coroutine, ever
IgnoredStayLeaves ==
    \A kp \in DOMAIN structure :
        structure[kp] \notin DispatchedTypes =>
            /\ ChildNodes(kp) = {}
            /\ \A t \in DOMAIN tasks : tasks[t].pstruct # kp

\* C20: ignored-type children are recorded but not dispatched. For a child
\* without the jcr: prefix whose value is an object of a primary type that is
\* neither a container type nor the asset type, or of no jcr:primaryType,
\* crawl_path stores a node tagged with that type, with an empty child map,
\* and issues no fetch for it; a child skipped for its jcr: prefix or its
\* non-object value gets no node.
IgnoredRecorded ==
    /\ []IgnoredStayLeaves
    /\ [][\A t \in DOMAIN tasks :
            Answered(t) =>
                \A r \in OkResponsesSpawning[CreatedNames] :
                    ReceiveJson(t, r) => IgnoredHandled(t, r)]_vars

\* C20 witness: the run is over; the root has a node of no type for child
\* "a", and the folder "/a" a node of type cq:Page for its child "a".
IgnoredWitness ==
    /\ crawlPc = "ended"
    /\ <<NameA>> \in DOMAIN structure /\ structure[<<NameA>>] = ""
    /\ <<NameSlashA, NameA>> \in DOMAIN structure
    /\ structure[<<NameSlashA, NameA>>] = "cq:Page"

====
